---- MODULE Spec2Model ----
(***************************************************************************)
(* OCR decision and orchestration layer of simple-pdf-rag-cli:             *)
(*   rag/document_loader.py : needs_ocr, load_document                     *)
(*   rag/ocr.py             : TesseractOCR, EasyOCR, get_ocr_engine,       *)
(*                            convert_pdf_to_text                          *)
(* One behaviour is one top-level call.  The PDF library, the recognition  *)
(* backends and the host installation are the environment: each answer is  *)
(* chosen when the code asks for it and recorded in the state.             *)
(***************************************************************************)
EXTENDS Integers, Sequences, FiniteSets, TLC

VARIABLES
    pc,             \* position of the running call
    stack,          \* call stack, outermost first
    exc,            \* exception that left the top-level call ("none": none)
    num_pages,      \* len(doc) of the PDF the call is about
    i,              \* loop index of needs_ocr / convert_pdf_to_text
    open_docs,      \* number of fitz document handles open
    log,            \* kinds of log records emitted
    fs,             \* files: existing path -> content (a sequence of lines)
    dirs,           \* directories that exist
    fs0,            \* the files as they were when the top-level call began
    pages,          \* needs_ocr: the pages read so far, [len, img] each
    total_text,     \* needs_ocr local
    has_images,     \* needs_ocr local
    pages_to_check, \* needs_ocr local
    needs_ret,      \* needs_ocr return value
    engine,         \* get_ocr_engine / convert_pdf_to_text argument
    lang,           \* same; a string as a sequence of tokens, "+" the separator
    kwargs,         \* same; keyword -> value
    host,           \* what the environment (host installation, PDF file) answered
    environ,        \* os.environ['TESSDATA_PREFIX']
    ocr_engine,     \* the engine object built
    output_path,    \* convert_pdf_to_text argument
    all_text,       \* convert_pdf_to_text local, a sequence of lines
    recog,          \* per page: did the recognition backend succeed
    conv_ret,       \* convert_pdf_to_text return value
    largs,          \* load_document arguments and the file's direct loadability
    temp_path,      \* load_document local
    caught,         \* exception caught by load_document's handler
    documents,      \* load_document local
    load_ret        \* load_document return value

ctlVars  == <<pc, stack, exc, caught>>
docVars  == <<num_pages, i, open_docs>>
heurVars == <<pages, total_text, has_images, pages_to_check, needs_ret>>
engVars  == <<engine, lang, kwargs, host, environ, ocr_engine>>
convVars == <<output_path, all_text, recog, conv_ret>>
loadVars == <<largs, temp_path, documents, load_ret>>
fsVars   == <<fs, dirs, fs0>>
vars     == <<ctlVars, docVars, heurVars, engVars, convVars, loadVars, fsVars, log>>

----------------------------------------------------------------------------
(* Bounds of the model *)

MaxPages == 6           \* largest page count of a PDF
MaxConvPages == 3       \* largest page count of a PDF given to convert_pdf_to_text
MaxDataDirs == 2        \* how many well-known directories may hold language data

(* Program constants *)

PagesToInspect == 5         \* min(5, len(doc))
ImageTextPerPage == 100     \* total_text < 100 * pages_to_check
PlainTextPerPage == 50      \* total_text < 50 * pages_to_check

NoneVal == "None"           \* Python's None
Unset == "unset"            \* a variable not assigned yet

Truthy(v) == v \notin {NoneVal, ""}

Min(a, b) == IF a < b THEN a ELSE b

(* Embedded-text lengths a page may have.  Sums of these reach both limits
   exactly (100*N, and 50*N for even N) and fall on either side of them. *)
TextLens == {0, 100}

RECURSIVE SumLen(_)
SumLen(ps) == IF ps = <<>> THEN 0 ELSE ps[1].len + SumLen(Tail(ps))

AnyImage(ps) == \E k \in 1..Len(ps) : ps[k].img

----------------------------------------------------------------------------
(* str.lower() on the letters the names below are written with *)

LowerChar(c) ==
    CASE c = "T" -> "t" [] c = "E" -> "e" [] c = "S" -> "s" [] c = "R" -> "r"
      [] c = "A" -> "a" [] c = "C" -> "c" [] c = "O" -> "o" [] c = "Y" -> "y"
      [] c = "P" -> "p" [] c = "D" -> "d" [] c = "F" -> "f" [] c = "X" -> "x"
      [] OTHER -> c

LowerIdentity(s) == s

Lower(s) == [k \in DOMAIN s |-> LowerChar(s[k])]

Chars_tesseract == <<"t","e","s","s","e","r","a","c","t">>
Chars_easyocr == <<"e","a","s","y","o","c","r">>
Chars_pdf == <<".","p","d","f">>
Chars_docx == <<".","d","o","c","x">>
Chars_txt == <<".","t","x","t">>

----------------------------------------------------------------------------
(* Initial state: nothing has been called *)

NoEngine == [cls |-> NoneVal, lang |-> <<>>, easyocr_lang |-> <<>>]

(* asked: the questions the code has put to the host; the other fields are
   the answers, meaningful once asked *)
NoHost == [asked |-> {}, pdf_exists |-> FALSE, data_dirs |-> {}, pytesseract |-> FALSE,
           version |-> FALSE, langs |-> FALSE, available |-> {}, easyocr |-> FALSE,
           render |-> FALSE]

NoReturn == [returned |-> FALSE, text |-> <<>>]

NoEnviron == [TESSDATA_PREFIX |-> Unset, tesseract_cmd |-> "tesseract"]

EmptyMap == [q \in {} |-> NoneVal]
SetKey(f, k, v) == [q \in DOMAIN f \cup {k} |-> IF q = k THEN v ELSE f[q]]
DelKey(f, k) == [q \in DOMAIN f \ {k} |-> f[q]]
KwGet(kw, k) == IF k \in DOMAIN kw THEN kw[k] ELSE NoneVal

(* ocr_options when the caller passes None, document_loader.py 128-134;
   .get() of the two missing keys gives None *)
DefaultOptions == [engine |-> Chars_tesseract, lang |-> <<"eng">>, use_gpu |-> "True",
                   tesseract_cmd |-> NoneVal, tessdata_dir |-> NoneVal]

NoArgs == [ext |-> <<>>, ocr_enabled |-> FALSE, options |-> DefaultOptions,
           direct_ok |-> FALSE]

NoDocuments == [loader |-> NoneVal, path |-> NoneVal, content |-> <<>>]

FilePath == "file_path"
OutDir == "out/nested"
OutPath == "out/nested/ocr.txt"
TempDir == "/tmp"
TempPath == "/tmp/tmpocr.txt"
Parent(p) == IF p = OutPath THEN OutDir ELSE TempDir
OldContent == <<"old">>

Init ==
    /\ pc = "idle" /\ stack = <<>> /\ exc = "none"
    /\ num_pages = 0 /\ i = 0 /\ open_docs = 0
    /\ log = {}
    /\ fs = EmptyMap /\ dirs = {TempDir} /\ fs0 = EmptyMap
    /\ pages = <<>> /\ total_text = 0 /\ has_images = FALSE
    /\ pages_to_check = 0 /\ needs_ret = Unset
    /\ engine = <<>> /\ lang = <<>> /\ kwargs = EmptyMap
    /\ host = NoHost /\ environ = NoEnviron /\ ocr_engine = NoEngine
    /\ output_path = NoneVal /\ all_text = <<>> /\ recog = <<>> /\ conv_ret = NoReturn
    /\ largs = NoArgs /\ temp_path = Unset /\ caught = "none"
    /\ documents = NoDocuments /\ load_ret = Unset

----------------------------------------------------------------------------
(* Call, return and exception propagation *)

Pop == SubSeq(stack, 1, Len(stack) - 1)
InLoad == Len(stack) >= 1 /\ stack[1] = "load_document"

(* An exception no handler of the running function catches: it unwinds to
   load_document's try block when the call came from there, and leaves the
   top-level call otherwise. *)
Raise(e) ==
    IF InLoad /\ Len(stack) > 1
    THEN /\ pc' = "l_after_ocr" /\ stack' = <<"load_document">>
         /\ exc' = exc /\ caught' = e
    ELSE /\ pc' = "done" /\ stack' = <<>> /\ exc' = e /\ caught' = caught

----------------------------------------------------------------------------
(* needs_ocr, document_loader.py 68-111 *)

CallNeedsOcr ==
    /\ pc = "idle"
    /\ \E n \in 0..MaxPages : num_pages' = n
    /\ pc' = "n_open" /\ stack' = <<"needs_ocr">>
    /\ UNCHANGED <<exc, caught, i, open_docs, heurVars, engVars, convVars, loadVars, fsVars, log>>

(* return of needs_ocr to whoever called it *)
NeedsReturn(v) ==
    /\ needs_ret' = v
    /\ stack' = Pop
    /\ pc' = IF Len(stack) > 1 THEN "l_needs_ret" ELSE "done"
    /\ UNCHANGED <<exc, caught>>

(* the except Exception clause, lines 109-111 *)
NeedsExceptFailClosed ==
    /\ log' = log \cup {"needs_ocr_warning"}
    /\ NeedsReturn("True")

NeedsExcept ==
    /\ log' = log \cup {"needs_ocr_warning"}
    /\ NeedsReturn("False")

(* the decision of lines 100-108 *)
NeedsOcrDecisionImagesOnly(images, text, n) ==
    IF images /\ text < ImageTextPerPage * n THEN TRUE ELSE FALSE

NeedsOcrDecision(images, text, n) ==
    IF images /\ text < ImageTextPerPage * n THEN TRUE
    ELSE IF text < PlainTextPerPage * n THEN TRUE
    ELSE FALSE

PyBool(b) == IF b THEN "True" ELSE "False"

(* lines 79-84: open the document and set up the loop *)
NOpen ==
    /\ pc = "n_open"
    /\ \E ok \in BOOLEAN :
        IF ok
        THEN /\ open_docs' = open_docs + 1
             /\ total_text' = 0 /\ has_images' = FALSE
             /\ pages_to_check' = Min(PagesToInspect, num_pages)
             /\ i' = 0 /\ pages' = <<>>
             /\ pc' = "n_loop"
             /\ UNCHANGED <<stack, exc, caught, needs_ret, log>>
        ELSE /\ NeedsExcept
             /\ UNCHANGED <<open_docs, total_text, has_images, pages_to_check, i, pages>>
    /\ UNCHANGED <<num_pages, engVars, convVars, loadVars, fsVars>>

(* lines 86-96: one iteration; get_text or get_images may fail *)
NPage ==
    /\ pc = "n_loop" /\ i < pages_to_check
    /\ \E len \in TextLens, img \in BOOLEAN, fail \in {"none", "get_text", "get_images"} :
        IF fail = "none"
        THEN /\ pages' = Append(pages, [len |-> len, img |-> img])
             /\ total_text' = total_text + len
             /\ has_images' = (has_images \/ img)
             /\ i' = i + 1
             /\ UNCHANGED <<pc, stack, exc, caught, needs_ret, log>>
        ELSE /\ total_text' = IF fail = "get_images" THEN total_text + len ELSE total_text
             /\ NeedsExcept
             /\ UNCHANGED <<pages, has_images, i>>
    /\ UNCHANGED <<num_pages, open_docs, pages_to_check, engVars, convVars, loadVars, fsVars>>

(* lines 98-108: close, decide, return *)
NDecide ==
    /\ pc = "n_loop" /\ i >= pages_to_check
    /\ open_docs' = open_docs - 1
    /\ NeedsReturn(PyBool(NeedsOcrDecision(has_images, total_text, pages_to_check)))
    /\ UNCHANGED <<num_pages, i, pages, total_text, has_images, pages_to_check,
                   engVars, convVars, loadVars, fsVars, log>>

----------------------------------------------------------------------------
(* Inputs of the engine factory *)

Chars_Tesseract == <<"T","e","s","s","e","r","a","c","t">>
Chars_EASYOCR == <<"E","A","S","Y","O","C","R">>
Chars_TESSERACT == <<"T","E","S","S","E","R","A","C","T">>
Chars_xyz == <<"x","y","z">>
Chars_tesseracts == <<"t","e","s","s","e","r","a","c","t","s">>
EngineNames == {Chars_tesseract, Chars_Tesseract, Chars_TESSERACT, Chars_easyocr,
                Chars_EASYOCR, Chars_xyz, Chars_tesseracts}

Langs == { <<"eng">>, <<"tha", "+", "eng">>, <<"eng", "+", "tha">>,
           <<"eng", "+", "fra">>, <<"fr">>, <<"fr", "+", "tha">> }

AvailSets == { {"eng"}, {"eng", "tha"} }

KwKeys == {"use_gpu", "tesseract_cmd", "tessdata_dir"}
KwValues(k) ==
    CASE k = "use_gpu" -> {"True"}
      [] k = "tesseract_cmd" -> {NoneVal, "/opt/bin/tesseract"}
      [] k = "tessdata_dir" -> {NoneVal, "/data/tessdata"}
KwargsChoices ==
    UNION { {kw \in [D -> UNION {KwValues(k) : k \in KwKeys}] :
                \A k \in D : kw[k] \in KwValues(k)} : D \in SUBSET KwKeys }

(* str.split('+') on a string given as a sequence of tokens *)
RECURSIVE SplitFrom(_, _)
SplitFrom(s, cur) ==
    IF s = <<>> THEN <<cur>>
    ELSE IF Head(s) = "+" THEN <<cur>> \o SplitFrom(Tail(s), "")
    ELSE SplitFrom(Tail(s), cur \o Head(s))
SplitPlus(s) == SplitFrom(s, "")

(* ocr.py 228-235 *)
potential_paths == <<
    "/usr/share/tessdata",
    "/usr/local/share/tessdata",
    "/opt/homebrew/share/tessdata",
    "/opt/tesseract/share/tessdata",
    "/usr/share/tesseract-ocr/tessdata",
    "C:\\Program Files\\Tesseract-OCR\\tessdata" >>

(* the host's answer to lines 237-238: which entries of potential_paths are
   directories holding <first code>.traineddata *)
DataDirSets == {S \in SUBSET (1..Len(potential_paths)) : Cardinality(S) <= MaxDataDirs}

(* the for loop of lines 237-241, from entry k on *)
RECURSIVE FindDataDir(_, _)
FindDataDir(k, ds) ==
    IF k > Len(potential_paths) THEN NoneVal
    ELSE IF k \in ds THEN potential_paths[k]
    ELSE FindDataDir(k + 1, ds)

(* keyword parameters of the two constructors besides lang and dpi *)
TesseractParams == {"tesseract_cmd", "tessdata_dir"}
EasyParams == {"use_gpu"}

(* lines 96-117: "ok", "warn" (logger.warning, construction goes on) or
   "raise".  The RuntimeError of line 106 is raised inside the try block of
   line 97 and caught by the except Exception of line 116. *)
TesseractLangCheck(retrieved, avail, codes) ==
    IF ~retrieved THEN "warn"
    ELSE IF \E k \in 1..Len(codes) : codes[k] \notin avail THEN "warn"
    ELSE "ok"

(* lines 156-176 *)
lang_map_same_order == [l \in { <<"tha">>, <<"eng">>, <<"tha", "+", "eng">>, <<"eng", "+", "tha">> } |->
    CASE l = <<"tha">> -> <<"th">>
      [] l = <<"eng">> -> <<"en">>
      [] l = <<"tha", "+", "eng">> -> <<"th", "en">>
      [] l = <<"eng", "+", "tha">> -> <<"th", "en">>]

lang_map == [l \in { <<"tha">>, <<"eng">>, <<"tha", "+", "eng">>, <<"eng", "+", "tha">> } |->
    CASE l = <<"tha">> -> <<"th">>
      [] l = <<"eng">> -> <<"en">>
      [] l = <<"tha", "+", "eng">> -> <<"th", "en">>
      [] l = <<"eng", "+", "tha">> -> <<"en", "th">>]

MapCode(part) == IF part = "tha" THEN "th" ELSE IF part = "eng" THEN "en" ELSE part

EasyLang(l) ==
    IF l \in DOMAIN lang_map THEN lang_map[l]
    ELSE [k \in DOMAIN SplitPlus(l) |-> MapCode(SplitPlus(l)[k])]

----------------------------------------------------------------------------
(* get_ocr_engine and the two constructors, ocr.py 61-117, 139-183, 212-247 *)

CallGetOcrEngine ==
    /\ pc = "idle"
    /\ \E e \in EngineNames, l \in Langs, kw \in KwargsChoices :
        /\ engine' = e /\ lang' = l /\ kwargs' = kw
    /\ pc' = "g_start" /\ stack' = <<"get_ocr_engine">>
    /\ UNCHANGED <<exc, caught, docVars, heurVars, host, environ, ocr_engine,
                   convVars, loadVars, fsVars, log>>

Ask(q, field, answer) == [host EXCEPT !.asked = @ \cup {q}, ![field] = answer]

(* return of the factory to whoever called it *)
EngineReturn(obj) ==
    /\ ocr_engine' = obj
    /\ stack' = Pop
    /\ pc' = IF Len(stack) > 1 THEN "c_open" ELSE "done"
    /\ UNCHANGED <<exc, caught>>

(* lines 225-227, 244-247: dispatch on engine.lower() *)
GDispatch ==
    /\ pc = "g_start"
    /\ IF Lower(engine) = Chars_tesseract
       THEN /\ pc' = IF "tessdata_dir" \notin DOMAIN kwargs THEN "g_discover" ELSE "t_init"
            /\ UNCHANGED <<stack, exc, caught>>
       ELSE IF Lower(engine) = Chars_easyocr
       THEN /\ pc' = "e_init"
            /\ UNCHANGED <<stack, exc, caught>>
       ELSE Raise("ValueError")
    /\ UNCHANGED <<docVars, heurVars, engVars, convVars, loadVars, fsVars, log>>

(* lines 228-241: look for the language data in the well-known places *)
GDiscover ==
    /\ pc = "g_discover"
    /\ \E ds \in DataDirSets :
        /\ host' = Ask("data_dirs", "data_dirs", ds)
        /\ kwargs' = IF FindDataDir(1, ds) # NoneVal
                     THEN SetKey(kwargs, "tessdata_dir", FindDataDir(1, ds))
                     ELSE kwargs
    /\ pc' = "t_init"
    /\ UNCHANGED <<stack, exc, caught, docVars, heurVars, engine, lang, environ,
                   ocr_engine, convVars, loadVars, fsVars, log>>

(* TesseractOCR.__init__, lines 64-88: bind the keywords, import the
   binding, set the command and TESSDATA_PREFIX *)
TInit ==
    /\ pc = "t_init"
    /\ IF ~(DOMAIN kwargs \subseteq TesseractParams)
       THEN /\ Raise("TypeError")
            /\ UNCHANGED <<host, environ>>
       ELSE \E installed \in BOOLEAN :
            /\ host' = Ask("pytesseract", "pytesseract", installed)
            /\ IF installed
               THEN /\ environ' =
                        [tesseract_cmd |->
                            IF Truthy(KwGet(kwargs, "tesseract_cmd"))
                            THEN kwargs["tesseract_cmd"] ELSE environ.tesseract_cmd,
                         TESSDATA_PREFIX |->
                            IF Truthy(KwGet(kwargs, "tessdata_dir"))
                            THEN kwargs["tessdata_dir"] ELSE environ.TESSDATA_PREFIX]
                    /\ pc' = "t_version"
                    /\ UNCHANGED <<stack, exc, caught>>
               ELSE /\ Raise("ImportError")
                    /\ UNCHANGED environ
    /\ UNCHANGED <<docVars, heurVars, engine, lang, kwargs, ocr_engine,
                   convVars, loadVars, fsVars, log>>

(* lines 90-94: the binary must answer *)
TVersion ==
    /\ pc = "t_version"
    /\ \E ok \in BOOLEAN :
        /\ host' = Ask("version", "version", ok)
        /\ IF ok
           THEN /\ pc' = "t_langs"
                /\ UNCHANGED <<stack, exc, caught>>
           ELSE Raise("RuntimeError")
    /\ UNCHANGED <<docVars, heurVars, engine, lang, kwargs, environ, ocr_engine,
                   convVars, loadVars, fsVars, log>>

(* lines 96-117: verify the requested languages *)
TLangs ==
    /\ pc = "t_langs"
    /\ \E retrieved \in BOOLEAN, avail \in AvailSets :
        LET check == TesseractLangCheck(retrieved, avail, SplitPlus(lang)) IN
        /\ host' = [host EXCEPT !.asked = @ \cup {"langs"}, !.langs = retrieved,
                                !.available = IF retrieved THEN avail ELSE {}]
        /\ IF check = "raise"
           THEN /\ Raise("RuntimeError")
                /\ UNCHANGED <<ocr_engine, log>>
           ELSE /\ EngineReturn([cls |-> "TesseractOCR", lang |-> lang, easyocr_lang |-> <<>>])
                /\ log' = IF check = "warn" THEN log \cup {"lang_warning"} ELSE log
    /\ UNCHANGED <<docVars, heurVars, engine, lang, kwargs, environ,
                   convVars, loadVars, fsVars>>

(* EasyOCR.__init__, lines 142-183 *)
EInit ==
    /\ pc = "e_init"
    /\ IF ~(DOMAIN kwargs \subseteq EasyParams)
       THEN /\ Raise("TypeError")
            /\ UNCHANGED <<host, ocr_engine>>
       ELSE \E installed \in BOOLEAN :
            /\ host' = Ask("easyocr", "easyocr", installed)
            /\ IF installed
               THEN EngineReturn([cls |-> "EasyOCR", lang |-> lang,
                                  easyocr_lang |-> EasyLang(lang)])
               ELSE /\ Raise("ImportError")
                    /\ UNCHANGED ocr_engine
    /\ UNCHANGED <<docVars, heurVars, engine, lang, kwargs, environ,
                   convVars, loadVars, fsVars, log>>

----------------------------------------------------------------------------
(* convert_pdf_to_text, ocr.py 250-318 *)

ConvEngines == {Chars_tesseract, Chars_easyocr, Chars_xyz}
ConvLangs == { <<"eng">>, <<"eng", "+", "fra">> }
LoaderKwargs(opts) ==
    [k \in KwKeys |-> CASE k = "use_gpu" -> opts.use_gpu
                        [] k = "tesseract_cmd" -> opts.tesseract_cmd
                        [] k = "tessdata_dir" -> opts.tessdata_dir]
ConvKwargs == {EmptyMap, [q \in {"use_gpu"} |-> "True"],
               [q \in {"tessdata_dir"} |-> "/data/tessdata"]}

(* the files a caller may find at output_path: no parent directory, an
   empty parent directory, or an earlier file *)
CallConvert ==
    /\ pc = "idle"
    /\ \E e \in ConvEngines, l \in ConvLangs, kw \in ConvKwargs :
        /\ engine' = e /\ lang' = l /\ kwargs' = kw
    /\ \E n \in 0..MaxConvPages : num_pages' = n
    /\ \E out \in {NoneVal, OutPath}, pre \in {"nodir", "dir", "file"} :
        /\ output_path' = out
        /\ out = NoneVal => pre = "nodir"
        /\ dirs' = IF pre = "nodir" THEN dirs ELSE dirs \cup {OutDir}
        /\ fs' = IF pre = "file" THEN SetKey(fs, OutPath, OldContent) ELSE fs
        /\ fs0' = fs'
    /\ pc' = "c_start" /\ stack' = <<"convert_pdf_to_text">>
    /\ UNCHANGED <<exc, caught, i, open_docs, heurVars, host, environ, ocr_engine,
                   all_text, recog, conv_ret, loadVars, log>>

(* lines 272-278: the path must exist; then build the engine *)
CStart ==
    /\ pc = "c_start"
    /\ \E exists \in BOOLEAN :
        /\ host' = Ask("pdf_exists", "pdf_exists", exists)
        /\ IF exists
           THEN /\ pc' = "g_start" /\ stack' = Append(stack, "get_ocr_engine")
                /\ UNCHANGED <<exc, caught>>
           ELSE Raise("FileNotFoundError")
    /\ UNCHANGED <<docVars, heurVars, engine, lang, kwargs, environ, ocr_engine,
                   convVars, loadVars, fsVars, log>>

(* lines 280-287 *)
COpen ==
    /\ pc = "c_open"
    /\ \E ok \in BOOLEAN :
        IF ok
        THEN /\ open_docs' = open_docs + 1
             /\ all_text' = <<>> /\ recog' = <<>> /\ i' = 0
             /\ pc' = "c_loop"
             /\ UNCHANGED <<stack, exc, caught>>
        ELSE /\ Raise("FileDataError")
             /\ UNCHANGED <<open_docs, all_text, recog, i>>
    /\ UNCHANGED <<num_pages, heurVars, engVars, output_path, conv_ret, loadVars, fsVars, log>>

(* what the backend reads on page k when it succeeds *)
PageText(k) == "text of page " \o ToString(k)

(* "\n".join(result) *)
RECURSIVE Join(_)
Join(result) ==
    IF result = <<>> THEN ""
    ELSE IF Len(result) = 1 THEN result[1]
    ELSE result[1] \o "\n" \o Join(Tail(result))

(* TesseractOCR.extract_text, lines 119-136; ok: image_to_string returned *)
TesseractExtractTextUncaught(page, ok) ==
    [raised |-> ~ok, text |-> IF ok THEN PageText(page) ELSE ""]

TesseractExtractText(page, ok) ==
    [raised |-> FALSE, text |-> IF ok THEN PageText(page) ELSE ""]

(* EasyOCR.extract_text, lines 185-209; ok: readtext returned *)
EasyExtractText(page, ok) ==
    [raised |-> FALSE, text |-> IF ok THEN Join(<<PageText(page)>>) ELSE ""]

extract_text(cls, page, ok) ==
    IF cls = "TesseractOCR" THEN TesseractExtractText(page, ok)
    ELSE EasyExtractText(page, ok)

(* line 293, page.get_pixmap: no handler surrounds it *)
RenderIsolated(ok) == IF ok THEN "image" ELSE "blank"

Render(ok) == IF ok THEN "image" ELSE "raise"

(* line 303: f"--- Page {i+1} ---\n{text}\n\n" as lines *)
MarkerLine(k) == "--- Page " \o ToString(k) \o " ---"

PageBlockZeroBased(idx, text) == <<MarkerLine(idx), text, "">>

PageBlock(idx, text) == <<MarkerLine(idx + 1), text, "">>

(* lines 289-303: one iteration *)
CPage ==
    /\ pc = "c_loop" /\ i < num_pages
    /\ \E render_ok \in BOOLEAN, backend_ok \in BOOLEAN :
        LET pix == Render(render_ok)
            r == extract_text(ocr_engine.cls, i + 1, backend_ok)
        IN  /\ host' = Ask("render", "render", render_ok)
            /\ IF pix = "raise"
               THEN /\ Raise("RenderError")
                    /\ UNCHANGED <<all_text, recog, i, log>>
               ELSE IF pix = "image" /\ r.raised
               THEN /\ Raise("RecognitionError")
                    /\ UNCHANGED <<all_text, recog, i, log>>
               ELSE /\ all_text' = all_text \o
                                       PageBlock(i, IF pix = "image" THEN r.text ELSE "")
                    /\ recog' = Append(recog, pix = "image" /\ backend_ok)
                    /\ i' = i + 1
                    /\ log' = IF pix = "image" /\ ~backend_ok
                              THEN log \cup {"ocr_error"} ELSE log
                    /\ UNCHANGED <<pc, stack, exc, caught>>
    /\ UNCHANGED <<num_pages, open_docs, heurVars, engine, lang, kwargs, environ,
                   ocr_engine, output_path, conv_ret, loadVars, fsVars>>

(* line 306 *)
CClose ==
    /\ pc = "c_loop" /\ i >= num_pages
    /\ open_docs' = open_docs - 1
    /\ pc' = "c_save"
    /\ UNCHANGED <<stack, exc, caught, num_pages, i, heurVars, engVars, convVars,
                   loadVars, fsVars, log>>

(* lines 313-314: open(output_path, 'w') and write *)
OpenAppend(f, p, text) == SetKey(f, p, (IF p \in DOMAIN f THEN f[p] ELSE <<>>) \o text)

OpenWrite(f, p, text) == SetKey(f, p, text)

(* lines 308-318 *)
CSave ==
    /\ pc = "c_save"
    /\ IF Truthy(output_path)
       THEN /\ dirs' = dirs \cup {Parent(output_path)}
            /\ fs' = OpenWrite(fs, output_path, all_text)
            /\ log' = log \cup {"saved"}
       ELSE UNCHANGED <<dirs, fs, log>>
    /\ conv_ret' = [returned |-> TRUE, text |-> all_text]
    /\ stack' = Pop
    /\ pc' = IF Len(stack) > 1 THEN "l_after_ocr" ELSE "done"
    /\ UNCHANGED <<exc, caught, docVars, heurVars, engVars, output_path, all_text, recog,
                   loadVars, fs0>>

----------------------------------------------------------------------------
(* load_document, document_loader.py 113-202 *)

Chars_PDF == <<".","P","D","F">>
Chars_exe == <<".","e","x","e">>
Exts == {Chars_pdf, Chars_PDF, Chars_docx, Chars_txt, Chars_exe}

(* the option dictionaries main.py 62-69 builds, and None (DefaultOptions) *)
OptionChoices ==
    {DefaultOptions}
    \cup [engine : {Chars_tesseract}, lang : {<<"eng">>}, use_gpu : {"True"},
          tesseract_cmd : {NoneVal}, tessdata_dir : {"/data/tessdata"}]
    \cup [engine : {Chars_easyocr}, lang : {<<"eng">>}, use_gpu : {"True"},
          tesseract_cmd : {NoneVal}, tessdata_dir : {NoneVal}]

(* direct_ok: whether PyPDFLoader can load this file *)
CallLoad ==
    /\ pc = "idle"
    /\ \E ext \in Exts, en \in BOOLEAN, opts \in OptionChoices, ok \in BOOLEAN :
        largs' = [ext |-> ext, ocr_enabled |-> en, options |-> opts, direct_ok |-> ok]
    /\ \E n \in 0..MaxPages : num_pages' = n
    /\ pc' = "l_start" /\ stack' = <<"load_document">>
    /\ UNCHANGED <<exc, caught, i, open_docs, heurVars, engVars, convVars,
                   temp_path, documents, load_ret, fsVars, log>>

Loaded(loader, path, content) == [loader |-> loader, path |-> path, content |-> content]

(* lines 125-139, 185-192: dispatch on the extension; needs_ocr is asked
   only when OCR is enabled *)
LStart ==
    /\ pc = "l_start"
    /\ IF Lower(largs.ext) = Chars_pdf
       THEN /\ IF largs.ocr_enabled
               THEN pc' = "n_open" /\ stack' = Append(stack, "needs_ocr")
               ELSE pc' = "l_direct" /\ stack' = stack
            /\ UNCHANGED <<exc, caught>>
       ELSE IF Lower(largs.ext) \in {Chars_docx, Chars_txt}
       THEN /\ pc' = "l_other"
            /\ UNCHANGED <<stack, exc, caught>>
       ELSE Raise("ValueError")
    /\ UNCHANGED <<docVars, heurVars, engVars, convVars, loadVars, fsVars, log>>

(* lines 139-161: on True create the temporary file and call
   convert_pdf_to_text with it as output_path *)
LNeedsRet ==
    /\ pc = "l_needs_ret"
    /\ IF needs_ret = "True"
       THEN /\ temp_path' = TempPath
            /\ fs' = SetKey(fs, TempPath, <<>>)
            /\ output_path' = TempPath
            /\ engine' = largs.options.engine
            /\ lang' = largs.options.lang
            /\ kwargs' = LoaderKwargs(largs.options)
            /\ pc' = "c_start" /\ stack' = Append(stack, "convert_pdf_to_text")
            /\ log' = log \cup {"using_ocr"}
       ELSE /\ pc' = "l_direct"
            /\ UNCHANGED <<temp_path, fs, output_path, engine, lang, kwargs, stack, log>>
    /\ UNCHANGED <<exc, caught, docVars, heurVars, host, environ, ocr_engine,
                   all_text, recog, conv_ret, largs, documents, load_ret, dirs, fs0>>

(* lines 173-174: the handler removes the temporary file if it is there *)
HandlerNoCleanup(f, p) == f

HandlerCleanup(f, p) == IF p \in DOMAIN f THEN DelKey(f, p) ELSE f

(* lines 176-178: the handler loads the PDF directly *)
FallbackReraise(direct_ok) == "raise"

FallbackLoad(direct_ok) == IF direct_ok THEN "PyPDFLoader" ELSE "raise"

(* lines 180-182: the non-OCR branch *)
DirectLoad(direct_ok) == IF direct_ok THEN "PyPDFLoader" ELSE "raise"

(* lines 163-178: the rest of the try statement.  caught = "none":
   convert_pdf_to_text returned; text_ok: TextLoader can load the file *)
LAfterOcr ==
    /\ pc = "l_after_ocr"
    /\ \E text_ok \in BOOLEAN :
        IF caught = "none" /\ text_ok
        THEN /\ documents' = Loaded("TextLoader", temp_path, fs[temp_path])
             /\ fs' = DelKey(fs, temp_path)
             /\ pc' = "l_split"
             /\ UNCHANGED <<stack, exc, caught, log>>
        ELSE /\ caught' = IF caught = "none" THEN "TextLoaderError" ELSE caught
             /\ log' = log \cup {"ocr_failed"}
             /\ fs' = HandlerCleanup(fs, temp_path)
             /\ IF FallbackLoad(largs.direct_ok) = "raise"
                THEN /\ pc' = "done" /\ stack' = <<>> /\ exc' = "PdfReadError"
                     /\ UNCHANGED documents
                ELSE /\ documents' = Loaded(FallbackLoad(largs.direct_ok), FilePath, <<>>)
                     /\ pc' = "l_split"
                     /\ UNCHANGED <<stack, exc>>
    /\ UNCHANGED <<docVars, heurVars, engVars, convVars, largs, temp_path, load_ret,
                   dirs, fs0>>

(* lines 179-182 *)
LDirect ==
    /\ pc = "l_direct"
    /\ IF DirectLoad(largs.direct_ok) = "raise"
       THEN /\ Raise("PdfReadError")
            /\ UNCHANGED documents
       ELSE /\ documents' = Loaded(DirectLoad(largs.direct_ok), FilePath, <<>>)
            /\ pc' = "l_split"
            /\ UNCHANGED <<stack, exc, caught>>
    /\ UNCHANGED <<docVars, heurVars, engVars, convVars, largs, temp_path, load_ret,
                   fsVars, log>>

(* lines 185-190 *)
LOther ==
    /\ pc = "l_other"
    /\ documents' = Loaded(IF Lower(largs.ext) = Chars_docx THEN "Docx2txtLoader"
                           ELSE "TextLoader", FilePath, <<>>)
    /\ pc' = "l_split"
    /\ UNCHANGED <<stack, exc, caught, docVars, heurVars, engVars, convVars, largs,
                   temp_path, load_ret, fsVars, log>>

(* lines 194-202: the chunks are cut from the documents loaded *)
LSplit ==
    /\ pc = "l_split"
    /\ load_ret' = "chunks of " \o documents.loader \o ":" \o documents.path
    /\ pc' = "done" /\ stack' = <<>>
    /\ UNCHANGED <<exc, caught, docVars, heurVars, engVars, convVars, largs,
                   temp_path, documents, fsVars, log>>

Next ==
    \/ CallNeedsOcr \/ NOpen \/ NPage \/ NDecide
    \/ CallConvert \/ CStart \/ COpen \/ CPage \/ CClose \/ CSave
    \/ CallLoad \/ LStart \/ LNeedsRet \/ LAfterOcr \/ LDirect \/ LOther \/ LSplit
    \/ CallGetOcrEngine \/ GDispatch \/ GDiscover \/ TInit \/ TVersion \/ TLangs \/ EInit

Spec == Init /\ [][Next]_vars

----------------------------------------------------------------------------
(* Properties *)

IsMarker(line) == \E k \in 0..(MaxPages + MaxConvPages) : line = MarkerLine(k)
MarkersOf(text) == SelectSeq(text, IsMarker)

(* C1: whenever convert_pdf_to_text returns, the marker lines of the
   returned text are exactly "--- Page 1 ---" ... "--- Page n ---", in
   that order, n the page count, whatever pages failed recognition. *)
C1_PageMarkers ==
    conv_ret.returned =>
        MarkersOf(conv_ret.text) = [k \in 1..num_pages |-> MarkerLine(k)]

C1_Witness ==
    /\ conv_ret.returned /\ num_pages = MaxConvPages
    /\ \E k \in 1..num_pages : ~recog[k]
    /\ \E k \in 1..num_pages : recog[k]

(* C2: a backend failure on a page never raises out of extract_text; the
   conversion returns, the failed page's block has empty text and every
   other page's block has that page's own text. *)
C2_RecognitionIsolated ==
    /\ exc # "RecognitionError" /\ caught # "RecognitionError"
    /\ conv_ret.returned =>
        /\ Len(recog) = num_pages
        /\ Len(conv_ret.text) = 3 * num_pages
        /\ \A k \in 1..num_pages :
            /\ conv_ret.text[3 * k - 2] = MarkerLine(k)
            /\ conv_ret.text[3 * k - 1] = (IF recog[k] THEN PageText(k) ELSE "")
            /\ conv_ret.text[3 * k] = ""

C2_Witness ==
    /\ conv_ret.returned /\ num_pages >= 2
    /\ ~recog[1] /\ recog[num_pages]
    /\ "ocr_error" \in log

MissingCode == \E k \in 1..Len(SplitPlus(lang)) : SplitPlus(lang)[k] \notin host.available

(* C3: when the available-language list was retrieved and a requested
   code is not in it, construction of the Tesseract engine fails with an
   error that reaches the caller; when the list could not be retrieved,
   construction succeeds with a warning. *)
C3_MissingLanguageFails ==
    /\ ("langs" \in host.asked /\ host.langs /\ MissingCode) =>
            /\ ocr_engine.cls = NoneVal
            /\ exc = "RuntimeError" \/ caught = "RuntimeError" \/ pc = "l_after_ocr"
    /\ ("langs" \in host.asked /\ ~host.langs) =>
            /\ ocr_engine.cls = "TesseractOCR"
            /\ "lang_warning" \in log

(* every question put to the environment was answered favourably *)
HostUsable ==
    /\ "pdf_exists" \in host.asked => host.pdf_exists
    /\ "pytesseract" \in host.asked => host.pytesseract
    /\ "version" \in host.asked => host.version
    /\ "langs" \in host.asked => host.langs /\ ~MissingCode
    /\ "easyocr" \in host.asked => host.easyocr
    /\ "render" \in host.asked => host.render
    /\ caught \notin {"FileDataError", "TextLoaderError"}

IsPdfLoad == largs.ext # <<>> /\ Lower(largs.ext) = Chars_pdf

(* C4: when load_document is called on a PDF with OCR enabled, needs_ocr
   returns True, the backend is usable and every page renders, the
   documents load_document chunks are the ones TextLoader loaded from the
   temporary file given to convert_pdf_to_text as output_path, for either
   engine and any forwarded options. *)
C4_OcrTextIsLoaded ==
    (/\ pc = "done" /\ load_ret # Unset
     /\ IsPdfLoad /\ largs.ocr_enabled /\ needs_ret = "True" /\ HostUsable) =>
        /\ output_path = TempPath
        /\ documents.loader = "TextLoader" /\ documents.path = TempPath

(* C5: a failure inside the OCR branch of load_document never leaves
   load_document; the file is then loaded as the non-OCR branch loads it,
   with the same result. *)
C5_FallbackToDirect ==
    /\ IsPdfLoad => exc \in {"none", "PdfReadError"}
    /\ (pc = "done" /\ "ocr_failed" \in log) =>
        IF DirectLoad(largs.direct_ok) = "raise"
        THEN exc = "PdfReadError" /\ load_ret = Unset
        ELSE /\ exc = "none"
             /\ documents = Loaded("PyPDFLoader", FilePath, <<>>)
             /\ load_ret = "chunks of PyPDFLoader:" \o FilePath

C5_Witness ==
    /\ pc = "done" /\ "ocr_failed" \in log /\ caught # "none"
    /\ documents.loader = "PyPDFLoader" /\ load_ret # Unset

(* C6: the temporary file load_document created does not exist when
   load_document has finished, whether it returned or raised. *)
C6_TempFileRemoved ==
    (pc = "done" /\ temp_path # Unset) => temp_path \notin DOMAIN fs

C6_Witness ==
    /\ pc = "done" /\ temp_path = TempPath
    /\ "ocr_failed" \in log /\ exc = "PdfReadError"

(* C7: on a document that can be inspected needs_ocr reads the first
   N = min(5, n) pages and returns True iff (an inspected page has an image
   and T < 100*N) or T < 50*N, T the text length summed over them. *)
C7_Heuristic ==
    /\ Len(pages) <= 5
    /\ (needs_ret # Unset /\ "needs_ocr_warning" \notin log) =>
        LET N == IF num_pages < 5 THEN num_pages ELSE 5
            T == SumLen(pages)
        IN  /\ Len(pages) = N
            /\ needs_ret = PyBool((AnyImage(pages) /\ T < 100 * N) \/ T < 50 * N)

C7_Witness ==
    /\ needs_ret = "False" /\ "needs_ocr_warning" \notin log
    /\ num_pages > 5 /\ ~AnyImage(pages) /\ SumLen(pages) = 50 * 5 + 50

(* C8: a failure while opening or inspecting the document never leaves
   needs_ocr: it returns False, and load_document goes on without OCR. *)
C8_FailOpen ==
    "needs_ocr_warning" \in log =>
        /\ needs_ret = "False"
        /\ exc \in {"none", "PdfReadError"}
        /\ temp_path = Unset /\ "using_ocr" \notin log /\ host.asked = {}
        /\ pc \in {"done", "l_needs_ret", "l_direct", "l_split"}
        /\ pc \in {"done", "l_split"} /\ exc = "none" /\ IsPdfLoad =>
                documents.loader = "PyPDFLoader"

C8_Witness ==
    /\ "needs_ocr_warning" \in log /\ Len(pages) >= 1 /\ AnyImage(pages)
    /\ pc = "done" /\ documents.loader = "PyPDFLoader"

(* C9: a page that fails to render ends convert_pdf_to_text with that
   failure: nothing is returned, no later page is processed and the files
   are as they were before the call. *)
C9_RenderFailurePropagates ==
    ("render" \in host.asked /\ ~host.render) =>
        /\ exc = "RenderError" \/ caught = "RenderError" \/ pc = "l_after_ocr"
        /\ ~conv_ret.returned
        /\ i < num_pages /\ Len(recog) = i /\ Len(all_text) = 3 * i
        /\ "saved" \notin log
        /\ ~InLoad /\ largs = NoArgs => fs = fs0 /\ pc = "done"

C9_Witness ==
    /\ exc = "RenderError" /\ i >= 1 /\ i + 1 < num_pages
    /\ output_path = OutPath /\ OutPath \in DOMAIN fs

RECURSIVE ExpectedText(_, _)
ExpectedText(rs, k) ==
    IF k > Len(rs) THEN <<>>
    ELSE <<MarkerLine(k), IF rs[k] THEN PageText(k) ELSE "", "">> \o ExpectedText(rs, k + 1)

(* C10: when convert_pdf_to_text returns with an output_path, the file
   and its parent directory exist and the file holds exactly the returned
   text, earlier content gone; the returned text depends on the pages
   alone, not on output_path. *)
C10_OutputFile ==
    (pc = "done" /\ conv_ret.returned /\ largs = NoArgs) =>
        /\ conv_ret.text = ExpectedText(recog, 1)
        /\ Truthy(output_path) =>
            /\ output_path \in DOMAIN fs
            /\ Parent(output_path) \in dirs
            /\ fs[output_path] = conv_ret.text
        /\ ~Truthy(output_path) => fs = fs0

C10_Witness ==
    /\ pc = "done" /\ conv_ret.returned /\ output_path = OutPath
    /\ OutPath \in DOMAIN fs0 /\ fs[OutPath] # fs0[OutPath]
    /\ num_pages >= 2

(* the upper-case form of a lower-case letter of the two engine names *)
UpperOf(c) ==
    CASE c = "t" -> "T" [] c = "e" -> "E" [] c = "s" -> "S" [] c = "r" -> "R"
      [] c = "a" -> "A" [] c = "c" -> "C" [] c = "o" -> "O" [] c = "y" -> "Y"
      [] OTHER -> c

IsCaseVariant(name, target) ==
    /\ Len(name) = Len(target)
    /\ \A k \in 1..Len(target) : name[k] \in {target[k], UpperOf(target[k])}

TesseractSelected ==
    \/ pc \in {"g_discover", "t_init", "t_version", "t_langs"}
    \/ ocr_engine.cls = "TesseractOCR"
    \/ host.asked \cap {"data_dirs", "pytesseract", "version", "langs"} # {}

EasySelected ==
    \/ pc = "e_init"
    \/ ocr_engine.cls = "EasyOCR"
    \/ "easyocr" \in host.asked

NameRejected == (exc = "ValueError" /\ engine # <<>>) \/ caught = "ValueError"

(* C11: get_ocr_engine takes the Tesseract branch exactly for the
   letter-case variants of "tesseract", the EasyOCR branch exactly for
   those of "easyocr", and for any other name raises ValueError with no
   engine constructed. *)
C11_CaseInsensitiveEngine ==
    /\ TesseractSelected => IsCaseVariant(engine, Chars_tesseract)
    /\ EasySelected => IsCaseVariant(engine, Chars_easyocr)
    /\ NameRejected =>
        /\ ~IsCaseVariant(engine, Chars_tesseract)
        /\ ~IsCaseVariant(engine, Chars_easyocr)
        /\ ocr_engine = NoEngine
        /\ host.asked \subseteq {"pdf_exists"}
    /\ (engine # <<>> /\ pc = "done" /\ stack = <<>> /\ largs = NoArgs
            /\ output_path = NoneVal /\ fs0 = EmptyMap /\ num_pages = 0
            /\ "pdf_exists" \notin host.asked) =>
        \/ TesseractSelected \/ EasySelected \/ NameRejected
        \/ exc = "TypeError"

C11_Witness ==
    /\ ocr_engine.cls = "TesseractOCR"
    /\ engine = Chars_TESSERACT
    /\ pc = "done"

(* the codes of a lang string whose codes are single tokens: every other
   token, the "+" signs between them left out *)
CodeCount(l) == (Len(l) + 1) \div 2
CodeAt(l, k) == l[2 * k - 1]
TagOf(code) == CASE code = "tha" -> "th" [] code = "eng" -> "en" [] OTHER -> code

(* C12: the EasyOCR language list has one entry per '+'-joined code of
   lang, in the same order, "tha" as "th", "eng" as "en", any other code
   unchanged; so "eng" gives [en], "tha+eng" [th, en], "eng+tha" [en, th]
   and "fr" [fr]. *)
C12_EasyLanguageList ==
    ocr_engine.cls = "EasyOCR" =>
        /\ ocr_engine.easyocr_lang =
                [k \in 1..CodeCount(lang) |-> TagOf(CodeAt(lang, k))]
        /\ lang = <<"eng">> => ocr_engine.easyocr_lang = <<"en">>
        /\ lang = <<"tha", "+", "eng">> => ocr_engine.easyocr_lang = <<"th", "en">>
        /\ lang = <<"eng", "+", "tha">> => ocr_engine.easyocr_lang = <<"en", "th">>
        /\ lang = <<"fr">> => ocr_engine.easyocr_lang = <<"fr">>

C12_Witness ==
    /\ ocr_engine.cls = "EasyOCR"
    /\ lang = <<"fr", "+", "tha">>
    /\ ocr_engine.easyocr_lang = <<"fr", "th">>

(* the caller named a language-data directory: no discovery has changed
   kwargs and the tessdata_dir keyword holds a value *)
DirSupplied == "data_dirs" \notin host.asked /\ Truthy(KwGet(kwargs, "tessdata_dir"))

FirstDataDir(ds) ==
    IF ds = {} THEN NoneVal
    ELSE potential_paths[CHOOSE k \in ds : \A m \in ds : k <= m]

(* C13: when the Tesseract engine is selected and the caller gave no
   language-data directory (tessdata_dir left out or passed as None), the
   directory used is the first entry of the well-known list, in list
   order, that holds the data of the first language code; when the caller
   gave one, that one is used and nothing is looked up. *)
C13_DataDirDiscovery ==
    (pc \in {"t_init", "t_version", "t_langs"} \/ ocr_engine.cls = "TesseractOCR") =>
        IF DirSupplied
        THEN /\ pc # "t_init" => environ.TESSDATA_PREFIX = kwargs["tessdata_dir"]
        ELSE /\ "data_dirs" \in host.asked
             /\ KwGet(kwargs, "tessdata_dir") = FirstDataDir(host.data_dirs)
             /\ (pc # "t_init" /\ host.data_dirs # {}) =>
                    environ.TESSDATA_PREFIX = FirstDataDir(host.data_dirs)

(* neither needs_ocr nor convert_pdf_to_text is running *)
NoOwnerRunning ==
    \A k \in 1..Len(stack) : stack[k] \notin {"needs_ocr", "convert_pdf_to_text"}

(* C14: once the call of needs_ocr or convert_pdf_to_text that opened a
   document has finished, by return or by exception, no document handle
   is left open. *)
C14_HandlesClosed ==
    NoOwnerRunning => open_docs = 0

====
